---- MODULE Spec2Model ----
(***************************************************************************)
(* A model of PySurfParcel: the Layout of a recon-all subject directory,   *)
(* the two atlas-to-subject procedures (cortical and subcortical) and the  *)
(* command lines of the FreeSurfer interfaces they drive.                  *)
(*                                                                         *)
(* Strings are real strings: paths are "/"-separated strings handled the   *)
(* way pathlib and os.path handle them, and a command line is the list of  *)
(* its arguments joined by blanks.                                         *)
(***************************************************************************)
EXTENDS Naturals, Integers, Sequences, FiniteSets, TLC

(***************************************************************************)
(* Strings, os.path and pathlib.                                           *)
(***************************************************************************)

\* str.startswith
StartsWith(s, p) == Len(s) >= Len(p) /\ SubSeq(s, 1, Len(p)) = p

\* str.endswith
EndsWith(s, p) == Len(s) >= Len(p) /\ SubSeq(s, Len(s) - Len(p) + 1, Len(s)) = p

CharAt(s, i) == SubSeq(s, i, i)

\* the positions of "/" in s
SlashPositions(s) == {i \in 1..Len(s) : CharAt(s, i) = "/"}

Max(S) == CHOOSE m \in S : \A x \in S : x <= m

\* str.rfind("/") + 1
AfterLastSlash(s) == IF SlashPositions(s) = {} THEN 1 ELSE Max(SlashPositions(s)) + 1

\* os.path.basename: what follows the last "/"
Basename(s) == SubSeq(s, AfterLastSlash(s), Len(s))

\* os.path.join of two strings (posixpath): an absolute second part resets
OsPathJoin2(a, b) ==
    IF StartsWith(b, "/") THEN b
    ELSE IF a = "" \/ EndsWith(a, "/") THEN a \o b
    ELSE a \o "/" \o b

\* os.path.join of a sequence of strings
RECURSIVE OsPathJoin(_)
OsPathJoin(parts) ==
    IF Len(parts) = 1 THEN parts[1]
    ELSE OsPathJoin(<<OsPathJoin2(parts[1], parts[2])>> \o SubSeq(parts, 3, Len(parts)))

\* str.split("/")
RECURSIVE SplitFrom(_, _, _)
SplitFrom(s, i, cur) ==
    IF i > Len(s) THEN <<cur>>
    ELSE IF CharAt(s, i) = "/" THEN <<cur>> \o SplitFrom(s, i + 1, "")
    ELSE SplitFrom(s, i + 1, cur \o CharAt(s, i))

Split(s) == SplitFrom(s, 1, "")

IsRealPart(c) == c # "" /\ c # "."

\* pathlib: the parts of a path, without empty and "." components
Parts(s) == SelectSeq(Split(s), IsRealPart)

RECURSIVE JoinSlash(_)
JoinSlash(parts) ==
    IF parts = <<>> THEN ""
    ELSE IF Len(parts) = 1 THEN parts[1]
    ELSE parts[1] \o "/" \o JoinSlash(Tail(parts))

\* str(pathlib.Path(s)): the normalised string of a path
PathOf(s) ==
    IF StartsWith(s, "/") THEN "/" \o JoinSlash(Parts(s))
    ELSE IF Parts(s) = <<>> THEN "."
    ELSE JoinSlash(Parts(s))

\* pathlib: path / child
PathDiv(p, child) == PathOf(OsPathJoin2(p, child))

\* pathlib: path.name
PathName(p) == IF Parts(p) = <<>> THEN "" ELSE Parts(p)[Len(Parts(p))]

\* pathlib: path.parent
PathParent(p) ==
    LET ps == Parts(p)
        up == IF ps = <<>> THEN <<>> ELSE SubSeq(ps, 1, Len(ps) - 1)
    IN IF StartsWith(p, "/") THEN "/" \o JoinSlash(up)
       ELSE IF up = <<>> THEN "."
       ELSE JoinSlash(up)

(***************************************************************************)
(* The subject directory and the values kept in layout.outputs.            *)
(***************************************************************************)

VARIABLES
    subject_dir,    \* Layout.subject_dir, a path
    files,          \* the files that exist, as normalised paths
    layout,         \* "none" before Layout(subject_dir), "built" after
    outputs,        \* Layout.outputs: output name -> value
    proc,           \* the procedure object, or the exception its constructor raised
    pc,             \* where RegisterXParcellation.run stands
    hemis,          \* the hemispheres run has still to loop over
    force,          \* the force argument of the run in progress
    runs,           \* the number of run calls made
    err,            \* the exception that ended the last run, "none" if none did
    last,           \* what the last step of the run in progress did
    trace,          \* the steps of the run in progress, in order, each with
                    \* whether it invoked its tool
    stamp,          \* which run call assigned each entry of the dicts run fills
    previous,       \* whether the run call before the one in progress returned
                    \* with its output files in place, and layout.outputs then
    iface,          \* the interface object: the name of its class
    self_inputs,    \* its inputs: the traits that are set
    ipc,            \* "new", "cmdline" once cmdline was read, "ran" once run was called
    cmdline,        \* the command line read
    cwd,            \* os.getcwd()
    dirs,           \* the directories that exist
    ifiles,         \* the files that exist where the interface copies its inputs
    invocation      \* what the external tool was invoked with, and what it found

pvars == <<subject_dir, files, layout, outputs, proc, pc, hemis, force, runs, err,
           last, trace, stamp, previous>>

ivars == <<iface, self_inputs, ipc, cmdline, cwd, dirs, ifiles, invocation>>

vars == <<pvars, ivars>>

\* the values of layout.outputs: None, a path, or a dict
None == [none |-> TRUE]
P(path) == [path |-> path]
D(items) == [items |-> items]

IsNone(v) == v = None
IsPath(v) == "path" \in DOMAIN v
IsDict(v) == "items" \in DOMAIN v

EmptyDict == D(<<>>)

\* d[key] = value on a dict value
DictSet(d, key, value) ==
    D([k \in DOMAIN d.items \cup {key} |-> IF k = key THEN value ELSE d.items[k]])

\* outputs[name] = value
Assign(outs, name, value) ==
    [k \in DOMAIN outs \cup {name} |-> IF k = name THEN value ELSE outs[k]]

\* dict.get(key): None for a key that is not there
Get(outs, name) == IF name \in DOMAIN outs THEN outs[name] ELSE None

\* the recon-all outputs the Layout looks for: name -> glob pattern below the
\* subject directory, in the order of the dict
OutputNames == <<"surfreg", "cortex_label", "brain", "talairach_xfm", "norm">>

OUTPUTS ==
    [surfreg       |-> "surf/*.sphere.reg",
     cortex_label  |-> "label/*.cortex.label",
     brain         |-> "mri/brain.mgz",
     talairach_xfm |-> "mri/transforms/talairach.xfm",
     norm          |-> "mri/norm.mgz"]

\* a path below dir, relative to dir; "" for a path that is not below dir
RelativeTo(path, dir) ==
    IF dir = "." THEN path
    ELSE IF dir = "/" THEN (IF StartsWith(path, "/") THEN SubSeq(path, 2, Len(path)) ELSE "")
    ELSE IF StartsWith(path, dir \o "/") THEN SubSeq(path, Len(dir) + 2, Len(path))
    ELSE ""

StarPositions(s) == {i \in 1..Len(s) : CharAt(s, i) = "*"}

\* fnmatch of a relative path against a pattern with at most one "*", which
\* matches within one path component
GlobMatch(pattern, rel) ==
    IF StarPositions(pattern) = {} THEN rel = pattern
    ELSE LET i == Max(StarPositions(pattern))
             pre == SubSeq(pattern, 1, i - 1)
             suf == SubSeq(pattern, i + 1, Len(pattern))
         IN /\ Len(rel) >= Len(pre) + Len(suf)
            /\ StartsWith(rel, pre)
            /\ EndsWith(rel, suf)
            /\ SlashPositions(SubSeq(rel, Len(pre) + 1, Len(rel) - Len(suf))) = {}

\* the set of files Path.glob(pattern) yields
Glob(fs, dir, pattern) ==
    {f \in fs : RelativeTo(f, dir) # "" /\ GlobMatch(pattern, RelativeTo(f, dir))}

\* the orders in which a directory listing can yield the files of S
Orderings(S) ==
    {o \in [1..Cardinality(S) -> S] : \A i, j \in 1..Cardinality(S) : o[i] = o[j] => i = j}

\* the loop over results that fills hemis
RECURSIVE HemisOf(_, _)
HemisOf(results, acc) ==
    IF results = <<>> THEN acc
    ELSE LET result == Head(results)
             name == PathName(result)
         IN IF StartsWith(name, "lh") THEN HemisOf(Tail(results), DictSet(acc, "lh", P(result)))
            ELSE IF StartsWith(name, "rh") THEN HemisOf(Tail(results), DictSet(acc, "rh", P(result)))
            ELSE HemisOf(Tail(results), acc)

\* a faulty collect_outputs: the first result is recorded whenever there is one
CollectOne_first(results) ==
    IF Len(results) >= 1 THEN P(results[1]) ELSE None

\* the value collect_outputs records for one output, given the glob's results
CollectOne(results) ==
    IF Len(results) = 1 THEN P(results[1])
    ELSE IF Len(results) > 1 THEN HemisOf(results, EmptyDict)
    ELSE None

\* Layout.collect_outputs: every result the loop over output_spec can have,
\* one for each order in which the globs can list the files
RECURSIVE CollectFrom(_, _, _, _)
CollectFrom(fs, dir, i, acc) ==
    IF i > Len(OutputNames) THEN {acc}
    ELSE UNION {CollectFrom(fs, dir, i + 1,
                            Assign(acc, OutputNames[i], CollectOne(results)))
                : results \in Orderings(Glob(fs, dir, OUTPUTS[OutputNames[i]]))}

collect_outputs(fs, dir) == CollectFrom(fs, dir, 1, <<>>)

(***************************************************************************)
(* The FreeSurfer interfaces: input specs and the command line nipype      *)
(* builds from them.                                                       *)
(***************************************************************************)

\* the values of an interface's inputs: a string, a bool, an int, a list of ints
S(v) == [s |-> v]
B(v) == [b |-> v]
I(v) == [i |-> v]
L(v) == [l |-> v]

\* isdefined(inputs.name)
IsDefined(inputs, name) == name \in DOMAIN inputs

\* the order of str on names: code point order, "_" before the small letters
Alphabet == "_abcdefghijklmnopqrstuvwxyz"

Ord(c) == CHOOSE i \in 1..Len(Alphabet) : CharAt(Alphabet, i) = c

RECURSIVE StrLess(_, _)
StrLess(a, b) ==
    IF b = "" THEN FALSE
    ELSE IF a = "" THEN TRUE
    ELSE IF CharAt(a, 1) # CharAt(b, 1) THEN Ord(CharAt(a, 1)) < Ord(CharAt(b, 1))
    ELSE StrLess(SubSeq(a, 2, Len(a)), SubSeq(b, 2, Len(b)))

\* a trait of an input spec. argstr "" stands for no argstr; positional says
\* whether position is set; bool and list name the trait types _format_arg
\* treats apart; template is the name_template of a trait with a name_source
Trait(name, argstr, positional, position, type, source, template) ==
    [name |-> name, argstr |-> argstr, positional |-> positional,
     position |-> position, type |-> type, source |-> source, template |-> template]

\* the traits every FSTraitedSpecOpenMP has
BaseTraits ==
    << Trait("args", "%s", FALSE, 0, "str", "", ""),
       Trait("environ", "", FALSE, 0, "dict", "", ""),
       Trait("subjects_dir", "", FALSE, 0, "str", "", ""),
       Trait("num_threads", "", FALSE, 0, "int", "", "") >>

\* a faulty input spec: the positions of canonsurf and classifier exchanged
MRIsCALabelInputSpec_swapped ==
    << Trait("subject_id", "%s", TRUE, -5, "str", "", ""),
       Trait("hemisphere", "%s", TRUE, -4, "str", "", ""),
       Trait("canonsurf", "%s", TRUE, -2, "str", "", ""),
       Trait("classifier", "%s", TRUE, -3, "str", "", ""),
       Trait("out_file", "%s", TRUE, -1, "str", "hemisphere", "%s.aparc.annot"),
       Trait("label", "-l %s", FALSE, 0, "str", "", ""),
       Trait("aseg", "-aseg %s", FALSE, 0, "str", "", ""),
       Trait("seed", "-seed %d", FALSE, 0, "int", "", "") >> \o BaseTraits

MRIsCALabelInputSpec ==
    << Trait("subject_id", "%s", TRUE, -5, "str", "", ""),
       Trait("hemisphere", "%s", TRUE, -4, "str", "", ""),
       Trait("canonsurf", "%s", TRUE, -3, "str", "", ""),
       Trait("classifier", "%s", TRUE, -2, "str", "", ""),
       Trait("smoothwm", "", FALSE, 0, "str", "", ""),
       Trait("curv", "", FALSE, 0, "str", "", ""),
       Trait("sulc", "", FALSE, 0, "str", "", ""),
       Trait("out_file", "%s", TRUE, -1, "str", "hemisphere", "%s.aparc.annot"),
       Trait("label", "-l %s", FALSE, 0, "str", "", ""),
       Trait("aseg", "-aseg %s", FALSE, 0, "str", "", ""),
       Trait("seed", "-seed %d", FALSE, 0, "int", "", ""),
       Trait("copy_inputs", "", FALSE, 0, "bool", "", "") >> \o BaseTraits

MRIsAnatomicalStatsInputSpec ==
    << Trait("subject_id", "%s", TRUE, -2, "str", "", ""),
       Trait("hemisphere", "%s", TRUE, -1, "str", "", ""),
       Trait("mgz", "-mgz", FALSE, 0, "bool", "", ""),
       Trait("cortex", "-cortex %s", FALSE, 0, "str", "", ""),
       Trait("annot", "-a %s", FALSE, 0, "str", "", ""),
       Trait("tabulr_output", "-b", FALSE, 0, "bool", "", ""),
       Trait("out_file", "-f %s", FALSE, 0, "str", "hemisphere", "%s.aparc.stats") >>
    \o BaseTraits

MRISegStatsInputSpec ==
    << Trait("segmentation", "--seg %s", FALSE, 0, "str", "", ""),
       Trait("ctab", "--ctab %s", FALSE, 0, "str", "", ""),
       Trait("excludeid", "--excludeid %s", FALSE, 0, "list", "", ""),
       Trait("out_file", "--sum %s", FALSE, 0, "str", "", ""),
       Trait("partial_volume", "--pv %s", FALSE, 0, "str", "", "") >> \o BaseTraits

\* the inputs a new interface object has: the traits with usedefault
MRIsCALabelDefaults == [subject_id |-> S("subject_id")]
MRIsAnatomicalStatsDefaults == [tabulr_output |-> B(TRUE)]
MRISegStatsDefaults == <<>>

\* str(int), for the ints the model formats
RECURSIVE Digits(_)
Digits(n) ==
    IF n < 10 THEN SubSeq("0123456789", n + 1, n + 1)
    ELSE Digits(n \div 10) \o SubSeq("0123456789", (n % 10) + 1, (n % 10) + 1)

RECURSIVE JoinWith(_, _)
JoinWith(sep, parts) ==
    IF parts = <<>> THEN ""
    ELSE IF Len(parts) = 1 THEN parts[1]
    ELSE parts[1] \o sep \o JoinWith(sep, Tail(parts))

PercentPositions(s) == {i \in 1..Len(s) : CharAt(s, i) = "%"}

\* argstr % value, for an argstr with one %s or %d
Format(argstr, text) ==
    LET i == Max(PercentPositions(argstr))
    IN SubSeq(argstr, 1, i - 1) \o text \o SubSeq(argstr, i + 2, Len(argstr))

\* str(value)
Str(v) ==
    IF "s" \in DOMAIN v THEN v.s
    ELSE IF "i" \in DOMAIN v THEN Digits(v.i)
    ELSE IF "b" \in DOMAIN v THEN (IF v.b THEN "True" ELSE "False")
    ELSE JoinWith(" ", [k \in DOMAIN v.l |-> Digits(v.l[k])])

\* BaseInterface._filename_from_source: the value of a trait with a
\* name_source is the input when set, else the template filled with the source
FilenameFromSource(trait, inputs) ==
    IF IsDefined(inputs, trait.name) THEN <<inputs[trait.name]>>
    ELSE IF IsDefined(inputs, trait.source)
         THEN <<S(Format(trait.template, Str(inputs[trait.source])))>>
    ELSE <<>>

\* the value _parse_inputs formats for a trait: <<>> when undefined
ValueOf(trait, inputs) ==
    IF trait.source # "" THEN FilenameFromSource(trait, inputs)
    ELSE IF IsDefined(inputs, trait.name) THEN <<inputs[trait.name]>>
    ELSE <<>>

\* CommandLine._format_arg: <<>> for None
FormatArg(trait, value) ==
    IF trait.type = "bool" /\ PercentPositions(trait.argstr) = {}
    THEN (IF value.b THEN <<trait.argstr>> ELSE <<>>)
    ELSE <<Format(trait.argstr, Str(value))>>

TraitNameLess(t, u) == StrLess(t.name, u.name)

HasArgstr(t) == t.argstr # ""

\* the formatted argument of each trait with an argstr, in the order of the
\* trait names: a sequence of [trait, arg] records
RECURSIVE ArgsOf(_, _)
ArgsOf(traits, inputs) ==
    IF traits = <<>> THEN <<>>
    ELSE LET t == Head(traits)
             v == ValueOf(t, inputs)
             a == IF v = <<>> THEN <<>> ELSE FormatArg(t, v[1])
         IN (IF a = <<>> THEN <<>> ELSE <<[trait |-> t, arg |-> a[1]]>>)
            \o ArgsOf(Tail(traits), inputs)

PositionLess(x, y) == x.trait.position < y.trait.position

IsInitial(x) == x.trait.positional /\ x.trait.position >= 0
IsFinal(x) == x.trait.positional /\ x.trait.position < 0
IsFree(x) == ~x.trait.positional

\* CommandLine._parse_inputs: first_args + all_args + last_args
ParseInputs(spec, inputs) ==
    LET args == ArgsOf(SortSeq(SelectSeq(spec, HasArgstr), TraitNameLess), inputs)
        first == SortSeq(SelectSeq(args, IsInitial), PositionLess)
        free == SelectSeq(args, IsFree)
        final == SortSeq(SelectSeq(args, IsFinal), PositionLess)
        all == first \o free \o final
    IN [k \in DOMAIN all |-> all[k].arg]

\* CommandLine.cmdline
CmdLine(cmd, spec, inputs) == JoinWith(" ", <<cmd>> \o ParseInputs(spec, inputs))

MRIsCALabel_cmdline(inputs) == CmdLine("mris_ca_label", MRIsCALabelInputSpec, inputs)
MRIsAnatomicalStats_cmdline(inputs) ==
    CmdLine("mris_anatomical_stats", MRIsAnatomicalStatsInputSpec, inputs)
MRISegStats_cmdline(inputs) == CmdLine("mri_segstats", MRISegStatsInputSpec, inputs)

\* MRIsCALabel._list_outputs
MRIsCALabel_list_outputs(inputs) ==
    OsPathJoin(<<inputs.subjects_dir.s, inputs.subject_id.s, "label",
                 Basename(inputs.out_file.s)>>)

\* a faulty MRIsAnatomicalStats._list_outputs: the label folder, as in run
MRIsAnatomicalStats_list_outputs_label(inputs) ==
    OsPathJoin(<<inputs.subjects_dir.s, inputs.subject_id.s, "label",
                 Basename(inputs.out_file.s)>>)

\* MRIsAnatomicalStats._list_outputs
MRIsAnatomicalStats_list_outputs(inputs) ==
    OsPathJoin(<<inputs.subjects_dir.s, inputs.subject_id.s, "stats",
                 Basename(inputs.out_file.s)>>)

\* MRISegStats._list_outputs
MRISegStats_list_outputs(inputs) == inputs.out_file.s

(***************************************************************************)
(* The parcellation (an Atlas) and the procedures.                         *)
(***************************************************************************)

\* the number of run calls a behaviour makes
MaxRuns == 2

\* the subject directories: an absolute one, and one relative to the working
\* directory, whose parent is "."
SubjectDirs == {"/data/sub01", "sub01"}

Hemispheres == <<"lh", "rh">>

\* the atlas: its name and the values of the attributes it may have
ParcellationName == "schaefer"

ParcellationAttrs ==
    [lh_gcs        |-> "/atlas/lh.schaefer.gcs",
     rh_gcs        |-> "/atlas/rh.schaefer.gcs",
     subcortex_gcs |-> "/atlas/subcortex.schaefer.gca",
     lut           |-> "/atlas/schaefer.lut.txt"]

\* the atlases a procedure is constructed with: all attributes, or one missing
Atlases == {DOMAIN ParcellationAttrs} \cup
           {DOMAIN ParcellationAttrs \ {a} : a \in DOMAIN ParcellationAttrs}

Cortical_REQUIRED_PARCELLATION_KEYS == <<"rh_gcs", "lh_gcs", "lut">>
Cortical_REQUIRED_LAYOUT_KEYS == <<"cortex_label", "surfreg">>
SubCortical_REQUIRED_PARCELLATION_KEYS == <<"subcortex_gcs", "lut">>
SubCortical_REQUIRED_LAYOUT_KEYS == <<"brain", "talairach_xfm", "norm">>

Range(seq) == {seq[i] : i \in DOMAIN seq}

\* a faulty validate_required_inputs: the parcellation's attributes are not checked
validate_required_inputs_layout_only(layoutKeys, parcellationKeys, outs, atlas) ==
    IF \E key \in Range(layoutKeys) : IsNone(Get(outs, key)) THEN "FileNotFoundError"
    ELSE "none"

\* RegisterParcellation.validate_required_inputs: the exception it raises,
\* "none" when it returns
validate_required_inputs(layoutKeys, parcellationKeys, outs, atlas) ==
    IF \E key \in Range(layoutKeys) : IsNone(Get(outs, key)) THEN "FileNotFoundError"
    ELSE IF \E key \in Range(parcellationKeys) : key \notin atlas THEN "FileNotFoundError"
    ELSE "none"

\* RegisterSubCorticalParcellation.validate_required_inputs, its own copy
SubCortical_validate_required_inputs(layoutKeys, parcellationKeys, outs, atlas) ==
    IF \E key \in Range(layoutKeys) : IsNone(Get(outs, key)) THEN "FileNotFoundError"
    ELSE IF \E key \in Range(parcellationKeys) : key \notin atlas THEN "FileNotFoundError"
    ELSE "none"

\* RegisterCorticalParcellation.__init__ and RegisterSubCorticalParcellation.__init__:
\* the exception the constructor raises, "none" when the object is made
Construct_raises(kind, outs, atlas) ==
    IF kind = "cortical"
    THEN validate_required_inputs(Cortical_REQUIRED_LAYOUT_KEYS,
                                  Cortical_REQUIRED_PARCELLATION_KEYS, outs, atlas)
    ELSE SubCortical_validate_required_inputs(SubCortical_REQUIRED_LAYOUT_KEYS,
                                              SubCortical_REQUIRED_PARCELLATION_KEYS,
                                              outs, atlas)

\* the exception outs[name][key] raises, "none" when it yields a value
LookupError(outs, name, key) ==
    IF name \notin DOMAIN outs THEN "KeyError"
    ELSE IF ~IsDict(outs[name]) THEN "TypeError"
    ELSE IF key \notin DOMAIN outs[name].items THEN "KeyError"
    ELSE "none"

\* str(v) of a value of layout.outputs
PyStr(v) == IF IsPath(v) THEN v.path ELSE IF IsNone(v) THEN "None" ELSE "{}"

\* what a step does: whether it invoked its tool, the exception it raised,
\* the files written, the paths returned, the command line and the output the
\* interface reports
Skipped(ret) ==
    [invoked |-> FALSE, raised |-> "none", wrote |-> {}, ret |-> ret,
     cmd |-> "", reported |-> ""]

Raised(e) ==
    [invoked |-> FALSE, raised |-> e, wrote |-> {}, ret |-> <<>>,
     cmd |-> "", reported |-> ""]

\* the external tool ends with exit code 0 and has written its outputs, or
\* ends with another exit code, which the interface raises
Invoked(cmd, reported, wrote, ret) ==
    { [invoked |-> TRUE, raised |-> "none", wrote |-> wrote, ret |-> ret,
       cmd |-> cmd, reported |-> reported],
      [invoked |-> TRUE, raised |-> "RuntimeError", wrote |-> {}, ret |-> <<>>,
       cmd |-> cmd, reported |-> reported] }

\* left-biased merge of two input records
Merge(new, old) ==
    [k \in DOMAIN new \cup DOMAIN old |-> IF k \in DOMAIN new THEN new[k] ELSE old[k]]

\* the condition under which a step does its work
MustRun(out_files, fs, frc) == (\E f \in out_files : f \notin fs) \/ frc

\* RegisterCorticalParcellation.map_to_hemisphere: out_file
Annot_out_file(sd, hemi) ==
    PathDiv(PathDiv(sd, "label"), hemi \o "." \o ParcellationName \o ".annot")

\* RegisterCorticalParcellation.map_to_hemisphere
map_to_hemisphere(outs, fs, sd, seed, hemi, frc) ==
    LET out_file == Annot_out_file(sd, hemi)
        gcs == IF hemi = "lh" THEN ParcellationAttrs.lh_gcs ELSE ParcellationAttrs.rh_gcs
    IN IF ~MustRun({out_file}, fs, frc) THEN {Skipped(<<out_file>>)}
       ELSE IF LookupError(outs, "surfreg", hemi) # "none"
            THEN {Raised(LookupError(outs, "surfreg", hemi))}
       ELSE IF LookupError(outs, "cortex_label", hemi) # "none"
            THEN {Raised(LookupError(outs, "cortex_label", hemi))}
       ELSE LET inputs == Merge(
                    [hemisphere   |-> S(hemi),
                     classifier   |-> S(gcs),
                     subject_id   |-> S(PathName(sd)),
                     canonsurf    |-> S(PyStr(outs["surfreg"].items[hemi])),
                     subjects_dir |-> S(PathParent(sd)),
                     label        |-> S(PyStr(outs["cortex_label"].items[hemi])),
                     seed         |-> I(seed),
                     out_file     |-> S(out_file)], MRIsCALabelDefaults)
                reported == MRIsCALabel_list_outputs(inputs)
            IN Invoked(MRIsCALabel_cmdline(inputs), reported, {PathOf(reported)},
                       <<out_file>>)

\* RegisterCorticalParcellation.calculate_parcellation_statistics: out_file
Stats_out_file(sd, hemi) ==
    PathDiv(PathDiv(sd, "stats"), hemi \o "." \o ParcellationName \o ".stats")

\* RegisterCorticalParcellation.calculate_parcellation_statistics
calculate_parcellation_statistics(outs, fs, sd, hemi, frc) ==
    LET out_file == Stats_out_file(sd, hemi)
    IN IF ~MustRun({out_file}, fs, frc) THEN {Skipped(<<out_file>>)}
       ELSE IF LookupError(outs, "cortical_annotation", hemi) # "none"
            THEN {Raised(LookupError(outs, "cortical_annotation", hemi))}
       ELSE IF LookupError(outs, "cortex_label", hemi) # "none"
            THEN {Raised(LookupError(outs, "cortex_label", hemi))}
       ELSE LET inputs == Merge(
                    [mgz          |-> B(TRUE),
                     hemisphere   |-> S(hemi),
                     subject_id   |-> S(PathName(sd)),
                     subjects_dir |-> S(PathParent(sd)),
                     annot        |-> S(PyStr(outs["cortical_annotation"].items[hemi])),
                     cortex       |-> S(PyStr(outs["cortex_label"].items[hemi])),
                     out_file     |-> S(out_file)], MRIsAnatomicalStatsDefaults)
                reported == MRIsAnatomicalStats_list_outputs(inputs)
            IN Invoked(MRIsAnatomicalStats_cmdline(inputs), reported,
                       {PathOf(reported)}, <<out_file>>)

\* RegisterCorticalParcellation.convert_stats_to_dataframe: the two CSV files
Regionwise_out_file(sd, hemi) ==
    PathDiv(PathDiv(sd, "stats"), hemi \o "." \o ParcellationName \o ".roi_stats.csv")

Global_out_file(sd, hemi) ==
    PathDiv(PathDiv(sd, "stats"), hemi \o "." \o ParcellationName \o ".global_stats.csv")

\* RegisterCorticalParcellation.convert_stats_to_dataframe
convert_stats_to_dataframe(outs, fs, sd, hemi, frc) ==
    LET out_regionwise_stats == Regionwise_out_file(sd, hemi)
        out_global_stats == Global_out_file(sd, hemi)
        ret == <<out_regionwise_stats, out_global_stats>>
    IN IF ~MustRun({out_regionwise_stats, out_global_stats}, fs, frc) THEN {Skipped(ret)}
       ELSE IF LookupError(outs, "cortical_stats", hemi) # "none"
            THEN {Raised(LookupError(outs, "cortical_stats", hemi))}
       ELSE Invoked("CorticalStats " \o PyStr(outs["cortical_stats"].items[hemi]), "",
                    {out_regionwise_stats, out_global_stats}, ret)

\* the exception outs[name] raises, "none" when it yields a value
KeyLookupError(outs, name) == IF name \notin DOMAIN outs THEN "KeyError" ELSE "none"

\* RegisterSubCorticalParcellation.map_to_subject: out_file
Seg_out_file(sd) ==
    PathDiv(PathDiv(sd, "mri"), "subcortex." \o ParcellationName \o ".mgz")

\* RegisterSubCorticalParcellation.map_to_subject, which drives nipype's CALabel
map_to_subject(outs, fs, sd, frc) ==
    LET out_file == Seg_out_file(sd)
    IN IF ~MustRun({out_file}, fs, frc) THEN {Skipped(<<out_file>>)}
       ELSE IF KeyLookupError(outs, "brain") # "none" THEN {Raised("KeyError")}
       ELSE IF KeyLookupError(outs, "talairach_xfm") # "none" THEN {Raised("KeyError")}
       ELSE Invoked(JoinWith(" ", <<"mri_ca_label", PyStr(outs["brain"]),
                                    PyStr(outs["talairach_xfm"]),
                                    ParcellationAttrs.subcortex_gcs, out_file>>),
                    out_file, {out_file}, <<out_file>>)

\* RegisterSubCorticalParcellation.calculate_parcellation_statistics: out_file
SegStats_out_file(sd) ==
    PathDiv(PathDiv(sd, "stats"), "subcortex." \o ParcellationName \o ".stats")

\* RegisterSubCorticalParcellation.calculate_parcellation_statistics
SubCortical_calculate_parcellation_statistics(outs, fs, sd, frc) ==
    LET out_file == SegStats_out_file(sd)
    IN IF ~MustRun({out_file}, fs, frc) THEN {Skipped(<<out_file>>)}
       ELSE IF KeyLookupError(outs, "subcortex_segmentation") # "none"
            THEN {Raised("KeyError")}
       ELSE IF KeyLookupError(outs, "norm") # "none" THEN {Raised("KeyError")}
       ELSE LET inputs == Merge(
                    [subjects_dir   |-> S(PathParent(sd)),
                     segmentation   |-> S(PyStr(outs["subcortex_segmentation"])),
                     ctab           |-> S(ParcellationAttrs.lut),
                     excludeid      |-> L(<<0>>),
                     partial_volume |-> S(PyStr(outs["norm"])),
                     out_file       |-> S(out_file)], MRISegStatsDefaults)
                reported == MRISegStats_list_outputs(inputs)
            IN Invoked(MRISegStats_cmdline(inputs), reported, {PathOf(reported)},
                       <<out_file>>)

\* RegisterSubCorticalParcellation.convert_stats_to_dataframe: the CSV file
SubCortical_Regionwise_out_file(sd) ==
    PathDiv(PathDiv(sd, "stats"), "subcortex." \o ParcellationName \o ".roi_stats.csv")

\* RegisterSubCorticalParcellation.convert_stats_to_dataframe
SubCortical_convert_stats_to_dataframe(outs, fs, sd, frc) ==
    LET out_regionwise_stats == SubCortical_Regionwise_out_file(sd)
    IN IF ~MustRun({out_regionwise_stats}, fs, frc) THEN {Skipped(<<out_regionwise_stats>>)}
       ELSE IF KeyLookupError(outs, "subcortex_stats") # "none" THEN {Raised("KeyError")}
       ELSE Invoked("SubCorticalStats " \o PyStr(outs["subcortex_stats"]), "",
                    {out_regionwise_stats}, <<out_regionwise_stats>>)

(***************************************************************************)
(* The state machine: a subject directory, its Layout, one procedure and   *)
(* its run calls.                                                          *)
(***************************************************************************)

\* the files of the subject directory a behaviour may start with, relative to
\* it: the recon-all outputs the cortical procedure reads and the files it
\* writes, or those of the subcortical procedure
CorticalInputs ==
    {"surf/lh.sphere.reg", "surf/rh.sphere.reg", "surf/lh.fsaverage.sphere.reg",
     "label/lh.cortex.label", "label/rh.cortex.label"}

\* the files the steps of the cortical procedure write for a hemisphere
CorticalOutputs(hemi) ==
    [annot   |-> RelativeTo(Annot_out_file("s", hemi), "s"),
     stats   |-> RelativeTo(Stats_out_file("s", hemi), "s"),
     roi     |-> RelativeTo(Regionwise_out_file("s", hemi), "s"),
     global  |-> RelativeTo(Global_out_file("s", hemi), "s")]

SubCorticalInputs == {"mri/brain.mgz", "mri/transforms/talairach.xfm", "mri/norm.mgz"}

SubCorticalOutputs ==
    {RelativeTo(Seg_out_file("s"), "s"), RelativeTo(SegStats_out_file("s"), "s"),
     RelativeTo(SubCortical_Regionwise_out_file("s"), "s")}

\* the hemispheres whose output files a behaviour may start with: the same
\* kinds of output for each hemisphere of the set
StartHemispheres == {{"lh"}, {"lh", "rh"}}

FileSystems ==
    {ins \cup {CorticalOutputs(h)[k] : h \in hs, k \in ks} :
        ins \in SUBSET CorticalInputs, ks \in SUBSET DOMAIN CorticalOutputs("lh"),
        hs \in StartHemispheres}
    \cup (SUBSET (SubCorticalInputs \cup SubCorticalOutputs))

NoProc == [kind |-> "none", seed |-> 0, raised |-> "none"]

\* no interface object is used on its own
NoInvocation == [invoked |-> FALSE]

NoInterface ==
    /\ iface = "none"
    /\ self_inputs = <<>>
    /\ ipc = "new"
    /\ cmdline = ""
    /\ cwd = ""
    /\ dirs = {}
    /\ ifiles = {}
    /\ invocation = NoInvocation

\* no run call returned before the one in progress
NoPrevious == [succeeded |-> FALSE, outputs |-> <<>>]

NoStep == [step |-> "none", hemi |-> "", force |-> FALSE, existed |-> FALSE] @@ Skipped(<<>>)

Init ==
    /\ subject_dir \in SubjectDirs
    /\ \E fs \in FileSystems : files = {subject_dir \o "/" \o f : f \in fs}
    /\ layout = "none"
    /\ outputs = <<>>
    /\ proc = NoProc
    /\ pc = "idle"
    /\ hemis = <<>>
    /\ force = FALSE
    /\ runs = 0
    /\ err = "none"
    /\ last = NoStep
    /\ trace = <<>>
    /\ stamp = <<>>
    /\ previous = NoPrevious
    /\ NoInterface

\* Layout.__init__: the one time the subject directory is globbed
LayoutInit ==
    /\ layout = "none"
    /\ layout' = "built"
    /\ outputs' \in collect_outputs(files, subject_dir)
    /\ UNCHANGED <<subject_dir, files, proc, pc, hemis, force, runs, err, last, trace,
                   stamp, previous>>
    /\ UNCHANGED ivars

\* RegisterCorticalParcellation(layout, parcellation) and
\* RegisterSubCorticalParcellation(layout, parcellation)
Construct(kind, atlas) ==
    /\ layout = "built"
    /\ proc = NoProc
    /\ proc' = [kind |-> kind, seed |-> 42,
                raised |-> Construct_raises(kind, outputs, atlas)]
    /\ UNCHANGED <<subject_dir, files, layout, outputs, pc, hemis, force, runs, err,
                   last, trace, stamp, previous>>
    /\ UNCHANGED ivars

Constructed(kind) == proc.kind = kind /\ proc.raised = "none"

\* the default of the force argument of run
Run_default_force == TRUE

\* the files the steps of RegisterCorticalParcellation.run return
Cortical_out_files(sd) ==
    UNION {{Annot_out_file(sd, hemi), Stats_out_file(sd, hemi),
            Regionwise_out_file(sd, hemi), Global_out_file(sd, hemi)} :
           hemi \in Range(Hemispheres)}

\* the files the steps of RegisterSubCorticalParcellation.run return
SubCortical_out_files(sd) ==
    {Seg_out_file(sd), SegStats_out_file(sd), SubCortical_Regionwise_out_file(sd)}

\* at a call of run: what the call before it left, when it returned without
\* exception and the files of its steps exist
PreviousRun(out_files) ==
    IF runs > 0 /\ err = "none" /\ out_files \subseteq files
    THEN [succeeded |-> TRUE, outputs |-> outputs]
    ELSE NoPrevious

\* the entries of stamp that are still entries of the dicts of outs
StampKeep(st, outs) ==
    [k \in {k \in DOMAIN st : /\ k[1] \in DOMAIN outs
                              /\ IsDict(outs[k[1]])
                              /\ k[2] \in DOMAIN outs[k[1]].items} |-> st[k]]

StampSet(st, name, key, run) ==
    [k \in DOMAIN st \cup {<<name, key>>} |-> IF k = <<name, key>> THEN run ELSE st[k]]

\* a faulty run: the surfreg entry is emptied with the three dicts
Cortical_run_reset_all(outs) ==
    Assign(Assign(Assign(Assign(outs, "surfreg", EmptyDict),
                         "cortical_annotation", EmptyDict),
                  "cortical_stats", EmptyDict), "cortical_stats_df", EmptyDict)

\* RegisterCorticalParcellation.run, up to the loop: the three dicts are emptied
Cortical_run_reset(outs) ==
    Assign(Assign(Assign(outs, "cortical_annotation", EmptyDict),
                  "cortical_stats", EmptyDict), "cortical_stats_df", EmptyDict)

\* a faulty loop body: the conversion before the statistics
Cortical_next_pc_swapped(p) ==
    IF p = "annot" THEN "conv" ELSE IF p = "conv" THEN "stats" ELSE "annot"

\* the order of the steps of one pass of the loop of run
Cortical_next_pc(p) ==
    IF p = "annot" THEN "stats" ELSE IF p = "stats" THEN "conv" ELSE "annot"

Cortical_first_pc == "annot"

RunCortical(frc) ==
    /\ Constructed("cortical")
    /\ pc = "idle"
    /\ runs < MaxRuns
    /\ runs' = runs + 1
    /\ force' = frc
    /\ outputs' = Cortical_run_reset(outputs)
    /\ stamp' = StampKeep(stamp, outputs')
    /\ hemis' = Hemispheres
    /\ pc' = Cortical_first_pc
    /\ previous' = PreviousRun(Cortical_out_files(subject_dir))
    /\ err' = "none"
    /\ trace' = <<>>
    /\ last' = NoStep
    /\ UNCHANGED <<subject_dir, files, layout, proc>>
    /\ UNCHANGED ivars

\* what every step of a run does with the outcome o of its step method: the
\* files written, the call counted, the step recorded
StepEffects(step, hemi, out_files, o) ==
    /\ files' = files \cup o.wrote
    /\ last' = [step |-> step, hemi |-> hemi, force |-> force,
                existed |-> out_files \subseteq files] @@ o
    /\ trace' = Append(trace, [step |-> step, hemi |-> hemi, invoked |-> o.invoked])
    /\ err' = o.raised
    /\ UNCHANGED <<subject_dir, layout, proc, force, runs, previous>>
    /\ UNCHANGED ivars

\* the loop of run: outputs["cortical_annotation"][hemi] = map_to_hemisphere(hemi, force)
CorticalAnnotation ==
    /\ Constructed("cortical")
    /\ pc = "annot"
    /\ \E o \in map_to_hemisphere(outputs, files, subject_dir, proc.seed, Head(hemis), force) :
        /\ StepEffects("annot", Head(hemis), {Annot_out_file(subject_dir, Head(hemis))}, o)
        /\ IF o.raised = "none"
           THEN /\ outputs' = Assign(outputs, "cortical_annotation",
                        DictSet(outputs["cortical_annotation"], Head(hemis), P(o.ret[1])))
                /\ stamp' = StampSet(stamp, "cortical_annotation", Head(hemis), runs)
                /\ pc' = Cortical_next_pc(pc)
                /\ hemis' = hemis
           ELSE /\ pc' = "idle"
                /\ hemis' = <<>>
                /\ UNCHANGED <<outputs, stamp>>

\* the loop of run: outputs["cortical_stats"][hemi] = calculate_parcellation_statistics(hemi, force)
CorticalStatistics ==
    /\ Constructed("cortical")
    /\ pc = "stats"
    /\ \E o \in calculate_parcellation_statistics(outputs, files, subject_dir, Head(hemis), force) :
        /\ StepEffects("stats", Head(hemis), {Stats_out_file(subject_dir, Head(hemis))}, o)
        /\ IF o.raised = "none"
           THEN /\ outputs' = Assign(outputs, "cortical_stats",
                        DictSet(outputs["cortical_stats"], Head(hemis), P(o.ret[1])))
                /\ stamp' = StampSet(stamp, "cortical_stats", Head(hemis), runs)
                /\ pc' = Cortical_next_pc(pc)
                /\ hemis' = hemis
           ELSE /\ pc' = "idle"
                /\ hemis' = <<>>
                /\ UNCHANGED <<outputs, stamp>>

\* the loop of run: convert_stats_to_dataframe(hemi, force) and
\* outputs["cortical_stats_df"][hemi] = {"regional": ..., "global": ...}
CorticalConversion ==
    /\ Constructed("cortical")
    /\ pc = "conv"
    /\ \E o \in convert_stats_to_dataframe(outputs, files, subject_dir, Head(hemis), force) :
        /\ StepEffects("conv", Head(hemis),
                       {Regionwise_out_file(subject_dir, Head(hemis)),
                        Global_out_file(subject_dir, Head(hemis))}, o)
        /\ IF o.raised = "none"
           THEN /\ outputs' = Assign(outputs, "cortical_stats_df",
                        DictSet(outputs["cortical_stats_df"], Head(hemis),
                                D([regional |-> P(o.ret[1]), global |-> P(o.ret[2])])))
                /\ stamp' = StampSet(stamp, "cortical_stats_df", Head(hemis), runs)
                /\ hemis' = Tail(hemis)
                /\ pc' = IF Tail(hemis) = <<>> THEN "idle" ELSE Cortical_next_pc(pc)
           ELSE /\ pc' = "idle"
                /\ hemis' = <<>>
                /\ UNCHANGED <<outputs, stamp>>

\* RegisterSubCorticalParcellation.run, up to the first step: the three
\* entries are set to empty dicts
SubCortical_run_reset(outs) ==
    Assign(Assign(Assign(outs, "subcortex_segmentation", EmptyDict),
                  "subcortex_stats", EmptyDict), "subcortex_stats_df", EmptyDict)

RunSubCortical(frc) ==
    /\ Constructed("subcortical")
    /\ pc = "idle"
    /\ runs < MaxRuns
    /\ runs' = runs + 1
    /\ force' = frc
    /\ outputs' = SubCortical_run_reset(outputs)
    /\ stamp' = StampKeep(stamp, outputs')
    /\ hemis' = <<>>
    /\ pc' = "seg"
    /\ previous' = PreviousRun(SubCortical_out_files(subject_dir))
    /\ err' = "none"
    /\ trace' = <<>>
    /\ last' = NoStep
    /\ UNCHANGED <<subject_dir, files, layout, proc>>
    /\ UNCHANGED ivars

\* run: outputs["subcortex_segmentation"] = map_to_subject(force)
SubCorticalSegmentation ==
    /\ Constructed("subcortical")
    /\ pc = "seg"
    /\ \E o \in map_to_subject(outputs, files, subject_dir, force) :
        /\ StepEffects("seg", "", {Seg_out_file(subject_dir)}, o)
        /\ IF o.raised = "none"
           THEN /\ outputs' = Assign(outputs, "subcortex_segmentation", P(o.ret[1]))
                /\ pc' = "segstats"
           ELSE /\ pc' = "idle"
                /\ UNCHANGED outputs
        /\ UNCHANGED <<hemis, stamp>>

\* run: outputs["subcortex_stats"] = calculate_parcellation_statistics(force)
SubCorticalStatistics ==
    /\ Constructed("subcortical")
    /\ pc = "segstats"
    /\ \E o \in SubCortical_calculate_parcellation_statistics(outputs, files, subject_dir, force) :
        /\ StepEffects("segstats", "", {SegStats_out_file(subject_dir)}, o)
        /\ IF o.raised = "none"
           THEN /\ outputs' = Assign(outputs, "subcortex_stats", P(o.ret[1]))
                /\ pc' = "segconv"
           ELSE /\ pc' = "idle"
                /\ UNCHANGED outputs
        /\ UNCHANGED <<hemis, stamp>>

\* run: outputs["subcortex_stats_df"] = {"regional": convert_stats_to_dataframe(force)}
SubCorticalConversion ==
    /\ Constructed("subcortical")
    /\ pc = "segconv"
    /\ \E o \in SubCortical_convert_stats_to_dataframe(outputs, files, subject_dir, force) :
        /\ StepEffects("segconv", "", {SubCortical_Regionwise_out_file(subject_dir)}, o)
        /\ IF o.raised = "none"
           THEN outputs' = Assign(outputs, "subcortex_stats_df", D([regional |-> P(o.ret[1])]))
           ELSE UNCHANGED outputs
        /\ pc' = "idle"
        /\ UNCHANGED <<hemis, stamp>>

Construction == \E kind \in {"cortical", "subcortical"}, atlas \in Atlases : Construct(kind, atlas)

CorticalRun == \E frc \in BOOLEAN : RunCortical(frc)

SubCorticalRun == \E frc \in BOOLEAN : RunSubCortical(frc)

Next ==
    \/ LayoutInit
    \/ Construction
    \/ CorticalRun
    \/ CorticalAnnotation
    \/ CorticalStatistics
    \/ CorticalConversion
    \/ SubCorticalRun
    \/ SubCorticalSegmentation
    \/ SubCorticalStatistics
    \/ SubCorticalConversion

Spec == Init /\ [][Next]_vars

(***************************************************************************)
(* The claims about the Layout and the procedures.                         *)
(***************************************************************************)

Kinds == {"cortical", "subcortical"}

RequiredLayoutKeys(kind) ==
    IF kind = "cortical" THEN Cortical_REQUIRED_LAYOUT_KEYS
    ELSE SubCortical_REQUIRED_LAYOUT_KEYS

RequiredParcellationKeys(kind) ==
    IF kind = "cortical" THEN Cortical_REQUIRED_PARCELLATION_KEYS
    ELSE SubCortical_REQUIRED_PARCELLATION_KEYS

\* a required key has None recorded in layout.outputs, or the parcellation
\* lacks a required attribute
SomethingMissing(kind, outs, atlas) ==
    \/ \E key \in Range(RequiredLayoutKeys(kind)) : key \notin DOMAIN outs \/ outs[key] = None
    \/ \E key \in Range(RequiredParcellationKeys(kind)) : key \notin atlas

\* C1: constructing either procedure raises FileNotFoundError exactly when a
\* key of its REQUIRED_LAYOUT_KEYS has None recorded in layout.outputs or the
\* parcellation lacks an attribute of its REQUIRED_PARCELLATION_KEYS, and the
\* construction writes no file, runs no step and invokes no tool.
C1_ConstructionRaisesOnMissing ==
    [][\A kind \in Kinds, atlas \in Atlases :
          Construct(kind, atlas) =>
              /\ proc'.raised = IF SomethingMissing(kind, outputs, atlas)
                                THEN "FileNotFoundError" ELSE "none"
              /\ files' = files
              /\ outputs' = outputs
              /\ trace' = trace
              /\ last' = last]_vars

\* a subcortical construction that failed although every required recon-all
\* output is there: the parcellation lacks an attribute
C1_Witness ==
    /\ proc.kind = "subcortical"
    /\ proc.raised = "FileNotFoundError"
    /\ \A key \in Range(SubCortical_REQUIRED_LAYOUT_KEYS) : ~IsNone(Get(outputs, key))
    /\ trace = <<>>

\* C2: once a procedure is constructed, run ends with no exception or with
\* the failure of an external tool, never with another error.
C2_RunFailsOnlyWithToolErrors == err \in {"none", "RuntimeError"}

\* C3: after collect_outputs every output name is a key of layout.outputs;
\* its value is None exactly when the glob matched no file, the matched path
\* when one file matched, and for more matches a dict whose keys are among lh
\* and rh, each with a matched path whose file name starts with the key.
C3_CollectedOutputs ==
    layout = "built" =>
        \A i \in DOMAIN OutputNames :
            LET name == OutputNames[i]
                matched == Glob(files, subject_dir, OUTPUTS[name])
            IN /\ name \in DOMAIN outputs
               /\ IsNone(outputs[name]) <=> matched = {}
               /\ Cardinality(matched) = 1 => \E f \in matched : outputs[name] = P(f)
               /\ Cardinality(matched) > 1 =>
                    /\ IsDict(outputs[name])
                    /\ DOMAIN outputs[name].items \subseteq {"lh", "rh"}
                    /\ \A k \in DOMAIN outputs[name].items :
                         /\ IsPath(outputs[name].items[k])
                         /\ outputs[name].items[k].path \in matched
                         /\ StartsWith(PathName(outputs[name].items[k].path), k)

\* three files match the surfreg pattern, two of them of the left hemisphere,
\* and the dict holds the one the glob listed last
C3_Witness ==
    /\ layout = "built"
    /\ Cardinality(Glob(files, subject_dir, OUTPUTS.surfreg)) = 3
    /\ IsDict(outputs.surfreg)
    /\ DOMAIN outputs.surfreg.items = {"lh", "rh"}
    /\ PathName(outputs.surfreg.items.lh.path) = "lh.fsaverage.sphere.reg"
    /\ IsPath(outputs.cortex_label)
    /\ IsNone(outputs.brain)

\* C7: a step invokes its tool or conversion if and only if force is true or
\* one of its output files does not exist, and, unless the tool it invoked
\* failed, returns its output paths.
C7_StepRunsIffForcedOrMissing ==
    last.step # "none" =>
        /\ last.invoked <=> (last.force \/ ~last.existed)
        /\ last.raised # "RuntimeError" => last.ret # <<>>

StepKey(step) == IF step = "annot" THEN "cortical_annotation" ELSE "cortical_stats"

StepFolder(step) == IF step = "annot" THEN "label" ELSE "stats"

StepFile(step, hemi) ==
    hemi \o "." \o ParcellationName \o (IF step = "annot" THEN ".annot" ELSE ".stats")

\* C8: the output MRIsCALabel (MRIsAnatomicalStats) reports is
\* subjects_dir/subject_id/label (stats)/<basename of out_file>, and it is
\* the path map_to_hemisphere (calculate_parcellation_statistics) returns
\* and run records in layout.outputs.
C8_ReportedOutputIsReturnedPath ==
    (last.step \in {"annot", "stats"} /\ last.invoked /\ last.raised = "none") =>
        /\ last.reported = PathParent(subject_dir) \o "/" \o PathName(subject_dir) \o "/"
                           \o StepFolder(last.step) \o "/" \o StepFile(last.step, last.hemi)
        /\ PathOf(last.reported) = last.ret[1]
        /\ outputs[StepKey(last.step)].items[last.hemi] = P(PathOf(last.reported))
        /\ PathOf(last.reported) \in files

\* the statistics tool has run for a subject directory given relative to the
\* working directory
C8_Witness ==
    /\ last.step = "stats"
    /\ last.invoked
    /\ last.raised = "none"
    /\ subject_dir = "sub01"
    /\ last.reported = "./sub01/stats/rh.schaefer.stats"

\* the steps of a complete run of the cortical procedure
CorticalOrder ==
    << <<"annot", "lh">>, <<"stats", "lh">>, <<"conv", "lh">>,
       <<"annot", "rh">>, <<"stats", "rh">>, <<"conv", "rh">> >>

AssignedInThisRun(name, hemi) ==
    /\ <<name, hemi>> \in DOMAIN stamp
    /\ stamp[<<name, hemi>>] = runs

\* C9: the cortical run takes its steps in the order annotation, statistics,
\* conversion for lh and then for rh; when the statistics (conversion) step
\* is about to read cortical_annotation[hemi] (cortical_stats[hemi]), the
\* preceding step of the same run call has assigned it; after a successful
\* run the three dicts hold entries for exactly lh and rh.
C9_StepsInOrder ==
    Constructed("cortical") =>
        /\ Len(trace) <= Len(CorticalOrder)
        /\ \A i \in DOMAIN trace : <<trace[i].step, trace[i].hemi>> = CorticalOrder[i]
        /\ pc = "stats" =>
             /\ AssignedInThisRun("cortical_annotation", Head(hemis))
             /\ trace[Len(trace)].step = "annot" /\ trace[Len(trace)].hemi = Head(hemis)
        /\ pc = "conv" =>
             /\ AssignedInThisRun("cortical_stats", Head(hemis))
             /\ trace[Len(trace)].step = "stats" /\ trace[Len(trace)].hemi = Head(hemis)
        /\ (pc = "idle" /\ runs > 0 /\ err = "none") =>
             /\ Len(trace) = Len(CorticalOrder)
             /\ \A name \in {"cortical_annotation", "cortical_stats", "cortical_stats_df"} :
                  /\ IsDict(outputs[name])
                  /\ DOMAIN outputs[name].items = {"lh", "rh"}
                  /\ \A h \in {"lh", "rh"} : AssignedInThisRun(name, h)

\* the second run call is about to read the annotation of the right
\* hemisphere, which the first run call had assigned too
C9_Witness ==
    /\ Constructed("cortical")
    /\ runs = 2
    /\ pc = "stats"
    /\ Head(hemis) = "rh"
    /\ ~force
    /\ ~last.invoked

\* the steps of RegisterSubCorticalParcellation.run, in order
SubCorticalOrder == <<"seg", "segstats", "segconv">>

\* the number of steps of a run that returns
StepsOfRun == IF proc.kind = "cortical" THEN Len(CorticalOrder) ELSE Len(SubCorticalOrder)

\* C11: when the run call before returned without exception and the files of
\* its steps exist, run(force=False) invokes no tool and no conversion and
\* leaves layout.outputs as that call left it, whereas run() with the default
\* force invokes every step again, for the cortical procedure for both
\* hemispheres, unless a tool it invoked fails.
C11_RerunSkipsOrRepeats ==
    previous.succeeded =>
        /\ ~force =>
            /\ \A i \in DOMAIN trace : ~trace[i].invoked
            /\ err = "none"
            /\ pc = "idle" => outputs = previous.outputs
        /\ force = Run_default_force =>
            /\ \A i \in DOMAIN trace : trace[i].invoked
            /\ (pc = "idle" /\ err # "RuntimeError") => Len(trace) = StepsOfRun

\* the keys each run assigns
CorticalRunKeys == {"cortical_annotation", "cortical_stats", "cortical_stats_df"}

SubCorticalRunKeys == {"subcortex_segmentation", "subcortex_stats", "subcortex_stats_df"}

\* the key the statement of run at pc assigns
KeyAssignedAt(p) ==
    IF p = "annot" THEN {"cortical_annotation"}
    ELSE IF p = "stats" THEN {"cortical_stats"}
    ELSE IF p = "conv" THEN {"cortical_stats_df"}
    ELSE IF p = "seg" THEN {"subcortex_segmentation"}
    ELSE IF p = "segstats" THEN {"subcortex_stats"}
    ELSE IF p = "segconv" THEN {"subcortex_stats_df"}
    ELSE {}

\* the keys of layout.outputs a step adds, removes or gives another value
ChangedKeys ==
    {k \in DOMAIN outputs \cup DOMAIN outputs' :
        \/ k \notin DOMAIN outputs
        \/ k \notin DOMAIN outputs'
        \/ outputs[k] # outputs'[k]}

\* C12: once the Layout is constructed the entries collected from the subject
\* directory never change, whatever files are written; constructing a
\* procedure (validation included) changes no key; a call of
\* RegisterCorticalParcellation.run changes only cortical_annotation,
\* cortical_stats and cortical_stats_df, one of
\* RegisterSubCorticalParcellation.run only subcortex_segmentation,
\* subcortex_stats and subcortex_stats_df; and a step changes no key but the
\* one run assigns its result to.
C12_OnlyRunKeysChange ==
    [][ /\ layout = "built" => ChangedKeys \cap Range(OutputNames) = {}
        /\ (layout = "built" /\ proc' # proc) => ChangedKeys = {}
        /\ proc.kind = "cortical" => ChangedKeys \subseteq CorticalRunKeys
        /\ proc.kind = "subcortical" => ChangedKeys \subseteq SubCorticalRunKeys
        /\ pc # "idle" => ChangedKeys \subseteq KeyAssignedAt(pc) ]_vars

\* a cortical run has returned after invoking its tools, which wrote files
\* below the subject directory, and the collected entries are still there
\* next to the three keys of the run
C12_Witness ==
    /\ Constructed("cortical")
    /\ runs >= 1
    /\ pc = "idle"
    /\ err = "none"
    /\ \A i \in DOMAIN trace : trace[i].invoked
    /\ Len(trace) = Len(CorticalOrder)
    /\ DOMAIN outputs = Range(OutputNames) \cup CorticalRunKeys
    /\ IsDict(outputs.surfreg)
    /\ Cortical_out_files(subject_dir) \subseteq files

(***************************************************************************)
(* The interfaces on their own: an interface object with some inputs set,  *)
(* whose cmdline is read or whose run is called.                           *)
(***************************************************************************)

Restrict(f, K) == [k \in K |-> f[k]]

\* the records that set some of the fields of f
Choices(f) == {Restrict(f, K) : K \in SUBSET DOMAIN f}

Nothing == <<>>

WorkingDir == "/work"

MRIsCALabelInputs ==
    {Merge(flags, Merge(implicit, Merge(out, Merge(copy, Merge(id,
        [hemisphere |-> S(h), canonsurf |-> S("lh.pial"), classifier |-> S("im1.nii"),
         subjects_dir |-> S("/subjects")]))))) :
        flags \in Choices([label |-> S("lh.cortex.label"),
                           aseg |-> S("aseg.presurf.mgz"), seed |-> I(42)]),
        implicit \in {Nothing, [smoothwm |-> S("lh.pial"), curv |-> S("lh.pial"),
                                sulc |-> S("lh.pial")]},
        out \in {Nothing, [out_file |-> S("/out/lh.my.annot")]},
        copy \in {Nothing, [copy_inputs |-> B(TRUE)]},
        id \in {MRIsCALabelDefaults, [subject_id |-> S("test")]},
        h \in Range(Hemispheres)}

MRIsAnatomicalStatsInputs ==
    {Merge(opts, Merge(MRIsAnatomicalStatsDefaults,
        [subject_id |-> S("test"), hemisphere |-> S(h), cortex |-> S("lh.cortex.label"),
         annot |-> S("lh.aparc.annot"), subjects_dir |-> S("/subjects")])) :
        opts \in Choices([mgz |-> B(TRUE), out_file |-> S("/out/lh.my.stats"),
                          tabulr_output |-> B(FALSE)]),
        h \in Range(Hemispheres)}

MRISegStatsInputs ==
    {Merge(opts, Merge(MRISegStatsDefaults,
        [segmentation |-> S("aseg.mgz"), ctab |-> S("FreeSurferColorLUT.txt"),
         out_file |-> S("aseg.stats"), subjects_dir |-> S("/subjects")])) :
        opts \in Choices([excludeid |-> L(<<0>>), partial_volume |-> S("norm.mgz")])}

\* the inputs run(**inputs) is called with
RunInputs == {Nothing, [subjects_dir |-> S("/elsewhere")], [subject_id |-> S("other")]}

\* a directory and the directories above it
DirAndAbove(d) == {"/" \o JoinSlash(SubSeq(Parts(d), 1, k)) : k \in 1..Len(Parts(d))}

\* os.makedirs
MakeDirs(ds, d) == ds \cup DirAndAbove(d)

\* the label directory of the subject the inputs name
LabelDir(ins) == OsPathJoin(<<ins.subjects_dir.s, ins.subject_id.s, "label">>)

IfaceInit ==
    /\ \E cls \in {"MRIsCALabel", "MRIsAnatomicalStats", "MRISegStats"} :
        /\ iface = cls
        /\ self_inputs \in (IF cls = "MRIsCALabel" THEN MRIsCALabelInputs
                            ELSE IF cls = "MRIsAnatomicalStats" THEN MRIsAnatomicalStatsInputs
                            ELSE MRISegStatsInputs)
    /\ ipc = "new"
    /\ cmdline = ""
    /\ cwd = WorkingDir
    /\ \E there \in SUBSET {"/subjects", WorkingDir} :
         dirs = UNION {DirAndAbove(OsPathJoin(<<d, "test", "label">>)) : d \in there}
    /\ ifiles = {}
    /\ invocation = NoInvocation
    /\ subject_dir = ""
    /\ files = {}
    /\ layout = "none"
    /\ outputs = <<>>
    /\ proc = NoProc
    /\ pc = "idle"
    /\ hemis = <<>>
    /\ force = FALSE
    /\ runs = 0
    /\ err = "none"
    /\ last = NoStep
    /\ trace = <<>>
    /\ stamp = <<>>
    /\ previous = NoPrevious

\* interface.cmdline
ReadCmdline ==
    /\ ipc = "new"
    /\ ipc' = "cmdline"
    /\ cmdline' = IF iface = "MRIsCALabel" THEN MRIsCALabel_cmdline(self_inputs)
                  ELSE IF iface = "MRIsAnatomicalStats"
                       THEN MRIsAnatomicalStats_cmdline(self_inputs)
                  ELSE MRISegStats_cmdline(self_inputs)
    /\ UNCHANGED <<iface, self_inputs, cwd, dirs, ifiles, invocation>>
    /\ UNCHANGED pvars

\* nipype's copy2subjdir(self, in_file, folder, basename): the directories and
\* files after it; nothing is copied for an input that is not set, nor over a
\* file that is there
copy2subjdir(state, ins, name, folder, basename) ==
    IF ~IsDefined(ins, name) THEN state
    ELSE LET out_dir == OsPathJoin(<<ins.subjects_dir.s, ins.subject_id.s, folder>>)
             out_file == OsPathJoin(<<out_dir,
                            IF basename = "" THEN Basename(ins[name].s) ELSE basename>>)
         IN [dirs |-> MakeDirs(state.dirs, out_dir), files |-> state.files \cup {out_file}]

\* MRIsCALabel.run, the copy_inputs branch: subjects_dir becomes the working
\* directory and the four inputs are copied into the surf folder
MRIsCALabel_copy_inputs(state, ins) ==
    LET h == ins.hemisphere.s
        s1 == copy2subjdir(state, ins, "canonsurf", "surf", "")
        s2 == copy2subjdir(s1, ins, "smoothwm", "surf", h \o ".smoothwm")
        s3 == copy2subjdir(s2, ins, "curv", "surf", h \o ".curv")
    IN copy2subjdir(s3, ins, "sulc", "surf", h \o ".sulc")

CopyInputsSet(ins) == IsDefined(ins, "copy_inputs") /\ ins.copy_inputs.b

\* MRIsCALabel.run(**inputs): what the tool is invoked with and what exists then
MRIsCALabel_run(ins, kwargs, wd, ds, fs) ==
    LET copying == CopyInputsSet(ins)
        ins1 == IF copying THEN Merge([subjects_dir |-> S(wd)], ins) ELSE ins
        kwargs1 == IF copying /\ "subjects_dir" \in DOMAIN kwargs
                   THEN Merge([subjects_dir |-> ins1.subjects_dir], kwargs) ELSE kwargs
        copied == IF copying
                  THEN MRIsCALabel_copy_inputs([dirs |-> ds, files |-> fs], ins1)
                  ELSE [dirs |-> ds, files |-> fs]
        label_dir == LabelDir(ins1)
        made == IF label_dir \in copied.dirs THEN copied.dirs
                ELSE MakeDirs(copied.dirs, label_dir)
        \* super().run(**inputs) sets the inputs given, then runs the command
        ins2 == Merge(kwargs1, ins1)
    IN [invoked |-> TRUE, inputs |-> ins2, dirs |-> made, files |-> copied.files,
        cmd |-> MRIsCALabel_cmdline(ins2)]

\* MRIsAnatomicalStats.run(**inputs)
MRIsAnatomicalStats_run(ins, kwargs, wd, ds, fs) ==
    LET label_dir == LabelDir(ins)
        made == IF label_dir \in ds THEN ds ELSE MakeDirs(ds, label_dir)
        ins2 == Merge(kwargs, ins)
    IN [invoked |-> TRUE, inputs |-> ins2, dirs |-> made, files |-> fs,
        cmd |-> MRIsAnatomicalStats_cmdline(ins2)]

\* MRISegStats.run(**inputs), inherited
MRISegStats_run(ins, kwargs, wd, ds, fs) ==
    LET ins2 == Merge(kwargs, ins)
    IN [invoked |-> TRUE, inputs |-> ins2, dirs |-> ds, files |-> fs,
        cmd |-> MRISegStats_cmdline(ins2)]

Ran(inv) ==
    /\ ipc = "new"
    /\ ipc' = "ran"
    /\ invocation' = inv
    /\ dirs' = inv.dirs
    /\ ifiles' = inv.files
    /\ self_inputs' = inv.inputs
    /\ UNCHANGED <<iface, cmdline, cwd>>
    /\ UNCHANGED pvars

RunMRIsCALabel ==
    /\ iface = "MRIsCALabel"
    /\ \E kwargs \in RunInputs : Ran(MRIsCALabel_run(self_inputs, kwargs, cwd, dirs, ifiles))

RunMRIsAnatomicalStats ==
    /\ iface = "MRIsAnatomicalStats"
    /\ \E kwargs \in RunInputs :
         Ran(MRIsAnatomicalStats_run(self_inputs, kwargs, cwd, dirs, ifiles))

RunMRISegStats ==
    /\ iface = "MRISegStats"
    /\ \E kwargs \in RunInputs : Ran(MRISegStats_run(self_inputs, kwargs, cwd, dirs, ifiles))

IfaceNext ==
    \/ ReadCmdline
    \/ RunMRIsCALabel
    \/ RunMRIsAnatomicalStats
    \/ RunMRISegStats

SpecIface == IfaceInit /\ [][IfaceNext]_vars

(***************************************************************************)
(* The claims about the interfaces.                                        *)
(***************************************************************************)

\* str.split(" ")
RECURSIVE WordsFrom(_, _, _)
WordsFrom(s, i, cur) ==
    IF i > Len(s) THEN <<cur>>
    ELSE IF CharAt(s, i) = " " THEN <<cur>> \o WordsFrom(s, i + 1, "")
    ELSE WordsFrom(s, i + 1, cur \o CharAt(s, i))

Words(s) == WordsFrom(s, 1, "")

\* the optional flags of mris_ca_label that the inputs set, each with its value
ExpectedFlags(ins) ==
    {<<"-l", ins.label.s>> : x \in {1} \cap {IF IsDefined(ins, "label") THEN 1 ELSE 0}}
    \cup {<<"-aseg", ins.aseg.s>> : x \in {1} \cap {IF IsDefined(ins, "aseg") THEN 1 ELSE 0}}
    \cup {<<"-seed", Digits(ins.seed.i)>> : x \in {1} \cap {IF IsDefined(ins, "seed") THEN 1 ELSE 0}}

\* the inputs of the example of the MRIsCALabel docstring
MRIsCALabelExample ==
    [subject_id |-> S("test"), hemisphere |-> S("lh"), canonsurf |-> S("lh.pial"),
     curv |-> S("lh.pial"), sulc |-> S("lh.pial"), classifier |-> S("im1.nii"),
     smoothwm |-> S("lh.pial"), subjects_dir |-> S("/subjects")]

\* C4: the command line of MRIsCALabel is mris_ca_label, then the optional
\* flags that are set (-l, -aseg, -seed, each with its value) and nothing
\* else, then subject_id, hemisphere, canonsurf, classifier and out_file,
\* which is <hemisphere>.aparc.annot when not set; smoothwm, curv and sulc
\* never appear.
C4_MRIsCALabelCmdline ==
    (iface = "MRIsCALabel" /\ ipc = "cmdline") =>
        LET args == Words(cmdline)
            n == Len(args)
            flags == SubSeq(args, 2, n - 5)
            out == IF IsDefined(self_inputs, "out_file") THEN self_inputs.out_file.s
                   ELSE self_inputs.hemisphere.s \o ".aparc.annot"
        IN /\ n >= 6
           /\ args[1] = "mris_ca_label"
           /\ SubSeq(args, n - 4, n) =
                <<self_inputs.subject_id.s, self_inputs.hemisphere.s,
                  self_inputs.canonsurf.s, self_inputs.classifier.s, out>>
           /\ Len(flags) = 2 * Cardinality(ExpectedFlags(self_inputs))
           /\ {<<flags[2 * k - 1], flags[2 * k]>> : k \in 1..(Len(flags) \div 2)}
                = ExpectedFlags(self_inputs)
           /\ self_inputs = MRIsCALabelExample =>
                cmdline = "mris_ca_label test lh lh.pial im1.nii lh.aparc.annot"

\* the command line with the three flags set and out_file not set
C4_Witness ==
    /\ iface = "MRIsCALabel"
    /\ ipc = "cmdline"
    /\ IsDefined(self_inputs, "smoothwm")
    /\ cmdline = "mris_ca_label -aseg aseg.presurf.mgz -l lh.cortex.label -seed 42 "
                 \o "test rh lh.pial im1.nii rh.aparc.annot"

\* the inputs of the example of the MRIsAnatomicalStats docstring
MRIsAnatomicalStatsExample ==
    [subject_id |-> S("test"), hemisphere |-> S("lh"), cortex |-> S("lh.cortex.label"),
     annot |-> S("lh.aparc.annot"), tabulr_output |-> B(TRUE),
     subjects_dir |-> S("/subjects")]

\* C5: with subject_id=test, hemisphere=lh, cortex=lh.cortex.label and
\* annot=lh.aparc.annot the command line of MRIsAnatomicalStats is
\* 'mris_anatomical_stats -b -cortex lh.cortex.label -a lh.aparc.annot test lh'.
C5_MRIsAnatomicalStatsCmdline ==
    (iface = "MRIsAnatomicalStats" /\ ipc = "cmdline"
     /\ self_inputs = MRIsAnatomicalStatsExample) =>
        cmdline = "mris_anatomical_stats -b -cortex lh.cortex.label -a lh.aparc.annot test lh"

\* the inputs of the example of the MRISegStats docstring
MRISegStatsExample ==
    [segmentation |-> S("aseg.mgz"), ctab |-> S("FreeSurferColorLUT.txt"),
     out_file |-> S("aseg.stats"), subjects_dir |-> S("/subjects")]

\* C6: with segmentation=aseg.mgz, ctab=FreeSurferColorLUT.txt and
\* out_file=aseg.stats the command line of MRISegStats is
\* 'mri_segstats --ctab FreeSurferColorLUT.txt --seg aseg.mgz --sum aseg.stats'.
C6_MRISegStatsCmdline ==
    (iface = "MRISegStats" /\ ipc = "cmdline" /\ self_inputs = MRISegStatsExample) =>
        cmdline = "mri_segstats --ctab FreeSurferColorLUT.txt --seg aseg.mgz --sum aseg.stats"

\* C10: when MRIsCALabel.run invokes the tool, the label directory of the
\* subject the tool is given exists; with copy_inputs, subjects_dir is the
\* working directory and the inputs that are set have their copies in the
\* surf folder under it.
C10_LabelDirExistsAtInvocation ==
    (iface = "MRIsCALabel" /\ invocation.invoked) =>
        LET ins == invocation.inputs
            surf == OsPathJoin(<<ins.subjects_dir.s, ins.subject_id.s, "surf">>)
        IN /\ LabelDir(ins) \in invocation.dirs
           /\ CopyInputsSet(ins) =>
                /\ ins.subjects_dir.s = cwd
                /\ OsPathJoin(<<surf, Basename(ins.canonsurf.s)>>) \in invocation.files
                /\ \A name \in {"smoothwm", "curv", "sulc"} :
                     IsDefined(ins, name) =>
                        OsPathJoin(<<surf, ins.hemisphere.s \o "." \o name>>)
                            \in invocation.files

====
